---------------------------- MODULE Spec2Model ----------------------------
(***************************************************************************)
(* A model of PBnet/src/models/architectures/transformerreemb.py: the      *)
(* relative position bias, the custom attention block, the einops          *)
(* wrapper, and the encoder and decoder forward passes over a batch        *)
(* mapping.                                                                *)
(*                                                                         *)
(* Conventions.  A tensor is a tuple of tuples; Python index p is TLA+     *)
(* index p + 1, so the reference frame x[:, 0, :] is x[b][1] here.  A      *)
(* relative offset j - i is the same number in both index conventions.     *)
(* Learned weights are drawn from small families of integer tables; the    *)
(* float32 rounding of the one large addition (bias - 1e8) is modelled.    *)
(***************************************************************************)
EXTENDS Integers, Sequences, FiniteSets, TLC

VARIABLES
    rpb,        \* a RelativePositionBias module: its parameters and table
    rpb_call,   \* the outstanding call on it and what the call computed
    attn,       \* an Attention module
    attn_call,  \* the outstanding call on it and what the call computed
    wrap,       \* an EinopsToAndFrom module: its two patterns and its fn
    wrap_call,  \* the outstanding call on it and what the call computed
    net,        \* an encoder and decoder pair: parameters and learned weights
    batch,      \* the batch mapping the forward passes are given
    orig,       \* the x, y and mask the batch was built with
    fwd         \* the outstanding forward pass and what it computed

biasVars == <<rpb, rpb_call>>

attnVars == <<attn, attn_call>>

wrapVars == <<wrap, wrap_call>>

netVars == <<net, batch, orig, fwd>>

vars == <<biasVars, attnVars, wrapVars, netVars>>

\* The value of a module variable in a specification that does not build it.
Unbuilt == [built |-> FALSE]

---------------------------------------------------------------------------
(* Arithmetic helpers. *)

Abs(a) == IF a < 0 THEN -a ELSE a

Min(a, b) == IF a <= b THEN a ELSE b

RECURSIVE Pow(_, _)
Pow(a, k) == IF k = 0 THEN 1 ELSE a * Pow(a, k - 1)

RECURSIVE GCD(_, _)
GCD(a, b) == IF b = 0 THEN a ELSE GCD(b, a % b)

RECURSIVE IsPowerOf(_, _)
IsPowerOf(R, r) == R = 1 \/ (R % r = 0 /\ IsPowerOf(R \div r, r))

RECURSIVE ExpOf(_, _)
ExpOf(R, r) == IF R = 1 THEN 0 ELSE 1 + ExpOf(R \div r, r)

\* The least r >= 2 of which R >= 2 is a power, and the exponent: R = r^e.
RootBase(R) == CHOOSE r \in 2..R : IsPowerOf(R, r) /\ \A s \in 2..(r - 1) : ~IsPowerOf(R, s)

RootExp(R) == ExpOf(R, RootBase(R))

---------------------------------------------------------------------------
(* float32 arithmetic on the integers the model uses. *)

\* The spacing of float32 at magnitude a: 1 below 2^24, doubling per binade.
RECURSIVE Ulp(_)
Ulp(a) == IF a < 16777216 THEN 1 ELSE 2 * Ulp(a \div 2)

\* Round to nearest float32, ties to even.
F32Round(x) ==
    LET a    == Abs(x)
        u    == Ulp(a)
        lo   == (a \div u) * u
        rem  == a - lo
        up   == IF 2 * rem < u THEN lo
                ELSE IF 2 * rem > u THEN lo + u
                ELSE IF (lo \div u) % 2 = 0 THEN lo ELSE lo + u
    IN  IF x < 0 THEN -up ELSE up

F32Add(a, b) == F32Round(a + b)

\* An optional argument: None, or a given value.
None == [given |-> FALSE, val |-> <<>>]

Some(v) == [given |-> TRUE, val |-> v]

exists(x) == x.given

---------------------------------------------------------------------------
(* RelativePositionBias *)

\* The offsets beyond which forward() subtracts HardMaskValue.
HardCutoff == 32

HardMaskValue == 100000000

\* (num_buckets, max_distance, heads) of the instances modelled: the
\* decoder's defaults, the class's own defaults, and a smaller table.
BiasConfigs ==
    { [num_buckets |-> 32, max_distance |-> 32,  heads |-> 2],
      [num_buckets |-> 32, max_distance |-> 128, heads |-> 1],
      [num_buckets |-> 16, max_distance |-> 64,  heads |-> 2] }

\* nn.Embedding(num_buckets, heads): weight[bucket][head], bucket in
\* 0 .. num_buckets - 1.  Two tables, one with all entries distinct.
WeightTables(c) ==
    { [b \in 0..(c.num_buckets - 1) |-> [h \in 1..c.heads |-> (b + 1) + 40 * (h - 1)]],
      [b \in 0..(c.num_buckets - 1) |-> [h \in 1..c.heads |-> h - 3 * b]] }

RelativePositionBias(c, w) ==
    [num_buckets |-> c.num_buckets, max_distance |-> c.max_distance,
     heads |-> c.heads, weight |-> w]

RECURSIVE LogSearch(_, _, _, _, _)
LogSearch(v, base, step, scale, rhs) ==
    IF Pow(base, step * (v + 1)) * scale <= rhs
    THEN LogSearch(v + 1, base, step, scale, rhs)
    ELSE v

\* (log(n / max_exact) / log(max_distance / max_exact) * span).long() for
\* n >= max_exact: the largest v with (max_distance / max_exact)^v <=
\* (n / max_exact)^span.  With max_distance / max_exact = r^e and
\* d = gcd(e, span), taking d-th roots gives r^((e/d) v) * max_exact^(span/d)
\* <= n^(span/d), which is compared in integers.
LogScaled(n, max_exact, max_distance, span) ==
    LET R == max_distance \div max_exact
        e == RootExp(R)
        d == GCD(e, span)
    IN  LogSearch(0, RootBase(R), e \div d,
                  Pow(max_exact, span \div d), Pow(n, span \div d))

\* SignOffset with the sign test turned round.
SignOffsetFlipped(n, half) == IF n > 0 THEN half ELSE 0

\* ret += (n < 0).long() * num_buckets, n being the negated offset.
SignOffset(n, half) == IF n < 0 THEN half ELSE 0

\* ClipLarge without the clip.
ClipLargeOff(val_if_large, half) == val_if_large

\* torch.min(val_if_large, full_like(val_if_large, num_buckets - 1))
ClipLarge(val_if_large, half) == Min(val_if_large, half - 1)

\* One element of _relative_position_bucket.
BucketOf(relative_position, num_buckets, max_distance) ==
    LET n0        == -relative_position
        half      == num_buckets \div 2
        ret       == SignOffset(n0, half)
        n         == Abs(n0)
        max_exact == half \div 2
        is_small  == n < max_exact
    IN  ret + IF is_small
              THEN n
              ELSE ClipLarge(max_exact + LogScaled(n, max_exact, max_distance,
                                                   half - max_exact), half)

\* _relative_position_bucket on a two-dimensional tensor of offsets.
relative_position_bucket(relative_position, num_buckets, max_distance) ==
    [i \in DOMAIN relative_position |->
        [j \in DOMAIN relative_position[i] |->
            BucketOf(relative_position[i][j], num_buckets, max_distance)]]

\* HardMasked with the cutoff offset itself included.
HardMaskedInclusive(rel) == IF rel >= HardCutoff \/ rel <= -HardCutoff THEN 1 ELSE 0

\* (rel_pos > 32) + (rel_pos < -32), a boolean tensor element as 0 or 1.
HardMasked(rel) == IF rel > HardCutoff \/ rel < -HardCutoff THEN 1 ELSE 0

\* RelativePositionBias.forward(n): the record of what the call computed.
\* An embedding lookup with an index outside the table raises IndexError.
RPBForward(self, n) ==
    LET q_pos     == [i \in 1..n |-> i - 1]
        k_pos     == [j \in 1..n |-> j - 1]
        rel_pos   == [i \in 1..n |-> [j \in 1..n |-> k_pos[j] - q_pos[i]]]
        rp_bucket == relative_position_bucket(rel_pos, self.num_buckets,
                                              self.max_distance)
        mask      == [i \in 1..n |-> [j \in 1..n |->
                         -(HardMasked(rel_pos[i][j]) * HardMaskValue)]]
        ok        == \A i \in 1..n : \A j \in 1..n :
                         rp_bucket[i][j] \in DOMAIN self.weight
    IN  [op |-> "forward", n |-> n, rel_pos |-> rel_pos, rp_bucket |-> rp_bucket,
         err |-> IF ok THEN "none" ELSE "IndexError",
         out |-> IF ok
                 THEN [h \in 1..self.heads |-> [i \in 1..n |-> [j \in 1..n |->
                          F32Add(self.weight[rp_bucket[i][j]][h], mask[i][j])]]]
                 ELSE <<>>]

\* A direct call of the static method on the row of offsets -K .. K.
RPBBucketCall(self, K) ==
    LET relative_position == << [c \in 1..(2 * K + 1) |-> c - K - 1] >>
    IN  [op |-> "bucket", n |-> 0, rel_pos |-> relative_position,
         rp_bucket |-> relative_position_bucket(relative_position,
                           self.num_buckets, self.max_distance),
         err |-> "none", out |-> <<>>]

NoCall == [op |-> "none", n |-> 0, rel_pos |-> <<>>, rp_bucket |-> <<>>,
           err |-> "none", out |-> <<>>]

\* Largest frame count passed to forward(), largest offset passed directly.
MaxBiasFrames == 35

MaxOffset == 100

InitBias ==
    /\ rpb \in UNION { { RelativePositionBias(c, w) : w \in WeightTables(c) } : c \in BiasConfigs }
    /\ rpb_call = NoCall
    /\ attn = Unbuilt /\ attn_call = Unbuilt
    /\ wrap = Unbuilt /\ wrap_call = Unbuilt
    /\ net = Unbuilt /\ batch = Unbuilt /\ orig = Unbuilt /\ fwd = Unbuilt

\* Calls are made one at a time (single-threaded, synchronous): a call is
\* made when none is outstanding, and its result is then consumed.
CallForward ==
    /\ rpb_call.op = "none"
    /\ \E n \in 1..MaxBiasFrames : rpb_call' = RPBForward(rpb, n)
    /\ UNCHANGED <<rpb, attnVars, wrapVars, netVars>>

CallBucket ==
    /\ rpb_call.op = "none"
    /\ \E K \in 1..MaxOffset : rpb_call' = RPBBucketCall(rpb, K)
    /\ UNCHANGED <<rpb, attnVars, wrapVars, netVars>>

ReturnBias ==
    /\ rpb_call.op # "none"
    /\ rpb_call' = NoCall
    /\ UNCHANGED <<rpb, attnVars, wrapVars, netVars>>

NextBias == CallForward \/ CallBucket \/ ReturnBias

SpecBias == InitBias /\ [][NextBias]_vars

---------------------------------------------------------------------------
(* Properties of RelativePositionBias, checked under SpecBias. *)

\* The (offset, bucket) pairs of the outstanding call.
OffsetBuckets ==
    { <<rpb_call.rel_pos[i][j], rpb_call.rp_bucket[i][j]>> :
        i \in DOMAIN rpb_call.rel_pos, j \in 1..(IF rpb_call.rel_pos = <<>> THEN 0 ELSE Len(rpb_call.rel_pos[1])) }

HalfBuckets == rpb.num_buckets \div 2

InLowerHalf(b) == 0 <= b /\ b < HalfBuckets

InUpperHalf(b) == HalfBuckets <= b /\ b < rpb.num_buckets

\* Non-decreasing in |k| among the offsets k <= 0 and among the offsets k > 0.
MonotoneInMagnitude ==
    \A p \in OffsetBuckets : \A q \in OffsetBuckets :
        ( /\ Abs(p[1]) <= Abs(q[1])
          /\ ((p[1] <= 0 /\ q[1] <= 0) \/ (p[1] > 0 /\ q[1] > 0)) )
        => p[2] <= q[2]

\* C4 as stated: for every offset k = j - i with |k| < n, bucket(k) and
\* bucket(-k) fall in disjoint halves of [0, num_buckets), and the bucket is
\* non-decreasing in |k| within each half.
C4_DisjointHalvesEveryOffset ==
    /\ \A p \in OffsetBuckets : \A q \in OffsetBuckets :
           q[1] = -p[1] =>
               \/ InLowerHalf(p[2]) /\ InUpperHalf(q[2])
               \/ InUpperHalf(p[2]) /\ InLowerHalf(q[2])
    /\ MonotoneInMagnitude

\* C4 amended: for every NONZERO offset k, bucket(k) and bucket(-k) fall in
\* disjoint halves (k > 0 in the upper half, k < 0 in the lower half, where
\* bucket(0) = 0 also lies), and the bucket is non-decreasing in |k| within
\* each half.
C4_DisjointHalvesNonzeroOffset ==
    /\ \A p \in OffsetBuckets : \A q \in OffsetBuckets :
           (q[1] = -p[1] /\ p[1] > 0) => InUpperHalf(p[2]) /\ InLowerHalf(q[2])
    /\ \A p \in OffsetBuckets : p[1] = 0 => p[2] = 0
    /\ MonotoneInMagnitude

\* A forward(35) call whose offsets +34 and -34 landed in opposite halves
\* and above the buckets of the near offsets.
C4_Witness ==
    /\ rpb_call.op = "forward" /\ rpb_call.n = 35
    /\ \E p \in OffsetBuckets : \E q \in OffsetBuckets : \E r \in OffsetBuckets :
           /\ p[1] = 34 /\ q[1] = -34 /\ r[1] = -5
           /\ InUpperHalf(p[2]) /\ InLowerHalf(q[2]) /\ r[2] < q[2]

\* C5: every entry [h, i, j] of forward(n) is the learned bias of the
\* bucket of j - i, minus 1e8 (a float32 subtraction) when |j - i| > 32 and
\* unchanged when |j - i| <= 32, for every num_buckets and max_distance.
C5_HardCutoffAt32 ==
    rpb_call.op = "forward" =>
        /\ rpb_call.err = "none"
        /\ \A h \in 1..rpb.heads : \A i \in 1..rpb_call.n : \A j \in 1..rpb_call.n :
               LET learned == rpb.weight[rpb_call.rp_bucket[i][j]][h]
                   entry   == rpb_call.out[h][i][j]
               IN  /\ rpb_call.rel_pos[i][j] = j - i
                   /\ IF Abs(j - i) > 32
                      THEN /\ entry = F32Round(learned - 100000000)
                           /\ Abs(entry - (learned - 100000000)) <= 4
                      ELSE entry = learned

\* A forward(35) call on the instance with max_distance = 128: offset 33 is
\* hard-masked, offset 32 is not.
C5_Witness ==
    /\ rpb_call.op = "forward" /\ rpb_call.n = 35 /\ rpb.max_distance = 128
    /\ rpb_call.out[1][1][34] < -50000000
    /\ rpb_call.out[1][1][33] = rpb.weight[rpb_call.rp_bucket[1][33]][1]
    /\ rpb_call.out[1][34][1] < -50000000

\* floor(8 * log(a / 8) / log(32 / 8)) = floor(4 * log2(a / 8)) for a >= 8:
\* the v with 2^v <= (a / 8)^4 < 2^(v + 1).
C8_LogTerm(a) ==
    CHOOSE v \in 0..16 : 4096 * Pow(2, v) <= Pow(a, 4) /\ Pow(a, 4) < 4096 * Pow(2, v + 1)

C8_Magnitude(a) == IF a < 8 THEN a ELSE Min(15, 8 + C8_LogTerm(a))

\* C8: with num_buckets = 32 and max_distance = 32 the bucket of offset k is
\* m for k <= 0 and 16 + m for k > 0, where m = |k| below 8 and
\* min(15, 8 + floor(8 log(|k| / 8) / log(32 / 8))) from 8 on; offset 0 maps
\* to bucket 0 and every bucket lies in [0, num_buckets).
C8_DefaultBuckets ==
    (rpb_call.op # "none" /\ rpb.num_buckets = 32 /\ rpb.max_distance = 32) =>
        \A p \in OffsetBuckets :
            LET m == C8_Magnitude(Abs(p[1]))
            IN  /\ p[2] = IF p[1] <= 0 THEN m ELSE 16 + m
                /\ 0 <= p[2] /\ p[2] < rpb.num_buckets
                /\ (p[1] = 0 => p[2] = 0)

\* A direct call on the decoder's defaults reaching offsets of magnitude
\* 100: the logarithmic region and the clip both happened.
C8_Witness ==
    /\ rpb_call.op = "bucket" /\ rpb.num_buckets = 32 /\ rpb.max_distance = 32
    /\ <<-12, 10>> \in OffsetBuckets
    /\ <<19, 28>> \in OffsetBuckets
    /\ <<-100, 15>> \in OffsetBuckets
    /\ <<100, 31>> \in OffsetBuckets

---------------------------------------------------------------------------
(* Attention *)

\* focus_present_mask.all() and (~focus_present_mask).all() on a 1-d tensor.
All(m) == \A b \in DOMAIN m : m[b]

AllNot(m) == \A b \in DOMAIN m : ~m[b]

\* FocusShortcut with any() in place of all().
FocusShortcutAny(focus_present_mask) ==
    exists(focus_present_mask) /\ \E b \in DOMAIN focus_present_mask.val : focus_present_mask.val[b]

\* if exists(focus_present_mask) and focus_present_mask.all()
FocusShortcut(focus_present_mask) ==
    exists(focus_present_mask) /\ All(focus_present_mask.val)

\* if exists(focus_present_mask) and not (~focus_present_mask).all()
FocusMasking(focus_present_mask) ==
    exists(focus_present_mask) /\ ~AllNot(focus_present_mask.val)

\* torch.where(focus_present_mask[b], eye(n), ones(n, n)): the pairs (i, j)
\* batch element b may attend; the others are filled with -finfo.max.
FocusMask(focus_present_mask, n) ==
    [b \in DOMAIN focus_present_mask |-> [i \in 1..n |-> [j \in 1..n |->
        IF focus_present_mask[b] THEN i = j ELSE TRUE]]]

\* The steps a sequence of optional stages contributes to a dataflow path.
Stage(cond, name) == IF cond THEN <<name>> ELSE <<>>

\* Attention.forward(x, pos_bias, focus_present_mask).  x is a tensor of
\* shape [bs, n, dim]; the learned maps are not evaluated: `path' is the
\* chain of operations the returned tensor went through, starting at x.
AttentionForward(self, x, pos_bias, focus_present_mask) ==
    LET n == x.n
        qkv == <<"x", "to_qkv">>
    IN  IF FocusShortcut(focus_present_mask)
        THEN [op |-> "forward", x |-> x, pos_bias |-> pos_bias,
              focus_present_mask |-> focus_present_mask,
              path |-> qkv \o <<"values", "to_out">>,
              mask |-> <<>>]
        ELSE [op |-> "forward", x |-> x, pos_bias |-> pos_bias,
              focus_present_mask |-> focus_present_mask,
              path |-> qkv \o <<"split_heads", "scale">>
                        \o Stage(exists(self.rotary_emb), "rotate")
                        \o <<"sim">>
                        \o Stage(exists(pos_bias), "pos_bias")
                        \o Stage(FocusMasking(focus_present_mask), "masked_fill")
                        \o <<"sub_amax", "softmax", "aggregate", "merge_heads", "to_out">>,
              mask |-> IF FocusMasking(focus_present_mask)
                       THEN FocusMask(focus_present_mask.val, n)
                       ELSE <<>>]

\* Largest batch and sequence length of an attention input.
MaxAttnBatch == 3

MaxAttnLen == 2

\* focus_present_mask: absent, or one boolean per batch element.
FocusMasks(bs) == {None} \cup { Some(m) : m \in [1..bs -> BOOLEAN] }

InitAttention ==
    /\ attn \in { [built |-> TRUE, heads |-> 4, dim_head |-> 32, rotary_emb |-> r] :
                    r \in {None, Some(<<"RotaryEmbedding">>)} }
    /\ attn_call = [op |-> "none"]
    /\ rpb = Unbuilt /\ rpb_call = Unbuilt
    /\ wrap = Unbuilt /\ wrap_call = Unbuilt
    /\ net = Unbuilt /\ batch = Unbuilt /\ orig = Unbuilt /\ fwd = Unbuilt

CallAttention ==
    /\ attn_call.op = "none"
    /\ \E bs \in 0..MaxAttnBatch : \E n \in 1..MaxAttnLen :
       \E pos_bias \in {None, Some(<<"time_rel_pos_bias">>)} :
       \E focus_present_mask \in FocusMasks(bs) :
           attn_call' = AttentionForward(attn, [bs |-> bs, n |-> n], pos_bias,
                                         focus_present_mask)
    /\ UNCHANGED <<attn, biasVars, wrapVars, netVars>>

ReturnAttention ==
    /\ attn_call.op # "none"
    /\ attn_call' = [op |-> "none"]
    /\ UNCHANGED <<attn, biasVars, wrapVars, netVars>>

NextAttention == CallAttention \/ ReturnAttention

SpecAttention == InitAttention /\ [][NextAttention]_vars

\* Whether step s occurs on a dataflow path.
OnPath(s, path) == \E k \in DOMAIN path : path[k] = s

\* C6: with focus_present_mask supplied and all true the result is
\* to_out(values) whatever x and pos_bias are, none of the head split,
\* scaling, rotation, similarity, pos_bias, masking and softmax steps being
\* taken; with the mask absent or not all true the full path is taken.
C6_FocusPresentShortcut ==
    attn_call.op = "forward" =>
        LET fpm == attn_call.focus_present_mask
        IN  IF fpm.given /\ (\A b \in DOMAIN fpm.val : fpm.val[b])
            THEN attn_call.path = <<"x", "to_qkv", "values", "to_out">>
            ELSE /\ \A s \in {"split_heads", "scale", "sim", "sub_amax", "softmax",
                              "aggregate", "merge_heads", "to_out"} :
                        OnPath(s, attn_call.path)
                 /\ ~OnPath("values", attn_call.path)
                 /\ OnPath("pos_bias", attn_call.path) <=> attn_call.pos_bias.given
                 /\ OnPath("rotate", attn_call.path) <=> attn.rotary_emb.given

\* A call with an all-true mask over three batch elements and a pos_bias
\* that took the shortcut.
C6_Witness ==
    /\ attn_call.op = "forward"
    /\ attn_call.focus_present_mask = Some(<<TRUE, TRUE, TRUE>>)
    /\ attn_call.pos_bias.given
    /\ attn_call.path = <<"x", "to_qkv", "values", "to_out">>

---------------------------------------------------------------------------
(* einops.rearrange on shapes and elements, and EinopsToAndFrom *)

\* A pattern is the tuple of its characters.  A tensor is its shape and its
\* elements in row-major order.

RECURSIVE Prod(_)
Prod(q) == IF q = <<>> THEN 1 ELSE Head(q) * Prod(Tail(q))

RECURSIVE Sum(_)
Sum(q) == IF q = <<>> THEN 0 ELSE Head(q) + Sum(Tail(q))

RECURSIVE Flatten(_)
Flatten(groups) == IF groups = <<>> THEN <<>> ELSE Head(groups) \o Flatten(Tail(groups))

SetOf(q) == { q[k] : k \in DOMAIN q }

IndexOf(q, a) == CHOOSE k \in DOMAIN q : q[k] = a

\* str.split(' '): the pieces between single spaces, empty pieces included.
RECURSIVE SplitSpace(_)
SplitSpace(s) ==
    IF \A k \in DOMAIN s : s[k] # " "
    THEN <<s>>
    ELSE LET k == CHOOSE c \in DOMAIN s : s[c] = " " /\ \A m \in 1..(c - 1) : s[m] # " "
         IN  <<SubSeq(s, 1, k - 1)>> \o SplitSpace(SubSeq(s, k + 1, Len(s)))

\* einops's pattern parser: the groups of axis names, an axis outside
\* parentheses being a group of its own; names end at blanks and parentheses.
RECURSIVE ScanPattern(_, _, _, _, _, _)
ScanPattern(s, i, ident, open, axes, acc) ==
    LET axes1 == IF ident # <<>> /\ open THEN Append(axes, ident) ELSE axes
        acc1  == IF ident # <<>> /\ ~open THEN Append(acc, <<ident>>) ELSE acc
    IN  IF i > Len(s) THEN acc1
        ELSE IF s[i] = "(" THEN ScanPattern(s, i + 1, <<>>, TRUE, <<>>, acc1)
        ELSE IF s[i] = ")" THEN ScanPattern(s, i + 1, <<>>, FALSE, <<>>, Append(acc1, axes1))
        ELSE IF s[i] = " " THEN ScanPattern(s, i + 1, <<>>, open, axes1, acc1)
        ELSE ScanPattern(s, i + 1, Append(ident, s[i]), open, axes, acc)

ParseGroups(s) == ScanPattern(s, 1, <<>>, FALSE, <<>>, <<>>)

\* ParsedExpression.check_axis_name on the names the model uses: letters.
ValidAxisName(tok) ==
    tok # <<>> /\ \A k \in DOMAIN tok : tok[k] \notin {"(", ")", " "}

\* Keyword arguments as the set of keys and the value of each.
EmptyKwargs == [keys |-> {}, at |-> <<>>]

EinopsError(why) == [err |-> why, shape |-> <<>>, data |-> <<>>]

\* rearrange(t, 'left -> right', **axes_lengths)
Rearrange(t, left, right, axes_lengths) ==
    LET L      == ParseGroups(left)
        R      == ParseGroups(right)
        axesL  == Flatten(L)
        axesR  == Flatten(R)
        Known(a)  == a \in axes_lengths.keys
        KnownProd(g) == Prod([k \in DOMAIN g |->
                                 IF Known(g[k]) THEN axes_lengths.at[g[k]] ELSE 1])
        Unknown(g) == { k \in DOMAIN g : ~Known(g[k]) }
        GroupOk(k) ==
            IF Cardinality(Unknown(L[k])) = 0 THEN KnownProd(L[k]) = t.shape[k]
            ELSE IF Cardinality(Unknown(L[k])) = 1
                 THEN KnownProd(L[k]) > 0 /\ t.shape[k] % KnownProd(L[k]) = 0
                 ELSE FALSE
        GroupWith(a) == CHOOSE k \in DOMAIN L : a \in SetOf(L[k])
        AxisSize(a) == IF Known(a) THEN axes_lengths.at[a]
                       ELSE t.shape[GroupWith(a)] \div KnownProd(L[GroupWith(a)])
        recipe_ok ==
            /\ SetOf(axesL) = SetOf(axesR)
            /\ Cardinality(SetOf(axesL)) = Len(axesL)
            /\ Cardinality(SetOf(axesR)) = Len(axesR)
            /\ \A key \in axes_lengths.keys : ValidAxisName(key) /\ key \in SetOf(axesL)
        shape_ok == Len(L) = Len(t.shape) /\ \A k \in DOMAIN L : GroupOk(k)
    IN  IF ~recipe_ok THEN EinopsError("EinopsError: axes")
        ELSE IF ~shape_ok THEN EinopsError("EinopsError: shape")
        ELSE
            LET sizesIn  == [k \in DOMAIN axesL |-> AxisSize(axesL[k])]
                sizesOut == [k \in DOMAIN axesR |-> AxisSize(axesR[k])]
                StrideIn(k)  == Prod(SubSeq(sizesIn, k + 1, Len(sizesIn)))
                StrideOut(k) == Prod(SubSeq(sizesOut, k + 1, Len(sizesOut)))
                Src(f) == Sum([k \in DOMAIN axesR |->
                                 ((f \div StrideOut(k)) % sizesOut[k])
                                     * StrideIn(IndexOf(axesL, axesR[k]))])
            IN  [err   |-> "none",
                 shape |-> [k \in DOMAIN R |->
                              Prod([m \in DOMAIN R[k] |-> AxisSize(R[k][m])])],
                 data  |-> [f \in 1..Prod(sizesIn) |-> t.data[1 + Src(f - 1)]]]

\* ReconstituteKwargs pairing the tokens with the dimensions in reverse.
ReconstituteKwargsReversed(tokens, shape) ==
    LET m == Min(Len(tokens), Len(shape))
    IN  [keys |-> { tokens[k] : k \in 1..m },
         at   |-> [key \in { tokens[k] : k \in 1..m } |->
                     shape[m + 1 - CHOOSE k \in 1..m :
                             tokens[k] = key /\ \A k2 \in (k + 1)..m : tokens[k2] # key]]]

\* dict(tuple(zip(from_einops.split(' '), shape))): token k is paired with
\* dimension k, up to the shorter of the two; a repeated key keeps its last
\* value.
ReconstituteKwargs(tokens, shape) ==
    LET m == Min(Len(tokens), Len(shape))
    IN  [keys |-> { tokens[k] : k \in 1..m },
         at   |-> [key \in { tokens[k] : k \in 1..m } |->
                     shape[CHOOSE k \in 1..m :
                             tokens[k] = key /\ \A k2 \in (k + 1)..m : tokens[k2] # key]]]

\* The wrapped functions modelled: two that preserve the shape and one
\* (concatenation with itself along the first axis) that does not.
ShapePreserving == {"identity", "negate"}

WrappedFns == ShapePreserving \cup {"cat_self"}

ApplyFn(fn, t) ==
    IF fn = "identity" THEN t
    ELSE IF fn = "negate"
    THEN [t EXCEPT !.data = [f \in DOMAIN t.data |-> -t.data[f]]]
    ELSE [t EXCEPT !.shape = [k \in DOMAIN t.shape |->
                                 IF k = 1 THEN 2 * t.shape[k] ELSE t.shape[k]],
                   !.data = t.data \o t.data]

\* EinopsToAndFrom.forward(x): an exception of a step ends the call.
EinopsForward(self, x) ==
    LET shape == x.shape
        reconstitute_kwargs == ReconstituteKwargs(SplitSpace(self.from_einops), shape)
        x1 == Rearrange(x, self.from_einops, self.to_einops, EmptyKwargs)
        x2 == ApplyFn(self.fn, x1)
        x3 == Rearrange(x2, self.to_einops, self.from_einops, reconstitute_kwargs)
    IN  [op |-> "forward", x |-> x, inner |-> x1,
         out |-> IF x1.err # "none" THEN x1 ELSE x3]

\* The (from_einops, to_einops) pairs modelled, the first the decoder's:
\*   'l b c' -> 'b l c'
\*   'a b c' -> 'c (a b)'
\*   'b c f' -> '(b f) c'
\*   '(l) b c' -> 'b l c'
\*   '(a b) c d' -> 'a b c d'
PatternPairs ==
    { <<<<"l", " ", "b", " ", "c">>,
        <<"b", " ", "l", " ", "c">>>>,
      <<<<"a", " ", "b", " ", "c">>,
        <<"c", " ", "(", "a", " ", "b", ")">>>>,
      <<<<"b", " ", "c", " ", "f">>,
        <<"(", "b", " ", "f", ")", " ", "c">>>>,
      <<<<"(", "l", ")", " ", "b", " ", "c">>,
        <<"b", " ", "l", " ", "c">>>>,
      <<<<"(", "a", " ", "b", ")", " ", "c", " ", "d">>,
        <<"a", " ", "b", " ", "c", " ", "d">>>> }

\* Largest size of a dimension of the wrapper's input.
MaxDim == 3

\* Inputs of rank 3 whose elements are their own row-major positions.
WrapInputs ==
    { [err |-> "none", shape |-> sh, data |-> [f \in 1..Prod(sh) |-> f]] :
        sh \in [1..3 -> 1..MaxDim] }

InitEinops ==
    /\ wrap \in { [built |-> TRUE, from_einops |-> pp[1], to_einops |-> pp[2], fn |-> fn] :
                    pp \in PatternPairs, fn \in WrappedFns }
    /\ wrap_call = [op |-> "none"]
    /\ rpb = Unbuilt /\ rpb_call = Unbuilt
    /\ attn = Unbuilt /\ attn_call = Unbuilt
    /\ net = Unbuilt /\ batch = Unbuilt /\ orig = Unbuilt /\ fwd = Unbuilt

CallEinops ==
    /\ wrap_call.op = "none"
    /\ \E x \in WrapInputs : wrap_call' = EinopsForward(wrap, x)
    /\ UNCHANGED <<wrap, biasVars, attnVars, netVars>>

ReturnEinops ==
    /\ wrap_call.op # "none"
    /\ wrap_call' = [op |-> "none"]
    /\ UNCHANGED <<wrap, biasVars, attnVars, netVars>>

NextEinops == CallEinops \/ ReturnEinops

SpecEinops == InitEinops /\ [][NextEinops]_vars

---------------------------------------------------------------------------
(* Properties of EinopsToAndFrom, checked under SpecEinops. *)

\* The call returned a tensor of the input's shape, with the input's
\* elements at their indices when fn is the identity (their negations when
\* fn negates).
RoundTrip ==
    /\ wrap_call.out.err = "none"
    /\ wrap_call.out.shape = wrap_call.x.shape
    /\ wrap.fn = "identity" => wrap_call.out.data = wrap_call.x.data
    /\ wrap.fn = "negate" =>
           wrap_call.out.data = [f \in DOMAIN wrap_call.x.data |-> -wrap_call.x.data[f]]

\* from_einops names one plain axis per input dimension, the names
\* separated by single spaces.
FlatFromPattern ==
    /\ \A k \in DOMAIN ParseGroups(wrap.from_einops) :
           Len(ParseGroups(wrap.from_einops)[k]) = 1
    /\ SplitSpace(wrap.from_einops) = Flatten(ParseGroups(wrap.from_einops))

\* C7 as stated: for any valid pattern pair (one einops accepts for the
\* input: the rearrangement into the target layout succeeded), parenthesised
\* groups in from_einops included, and a shape-preserving fn, the output
\* has the input's shape, and the input's elements when fn is the identity.
C7_RoundTripAnyValidPair ==
    ( /\ wrap_call.op = "forward"
      /\ wrap_call.inner.err = "none"
      /\ wrap.fn \in ShapePreserving ) => RoundTrip

\* C7 amended: the same, for the pattern pairs whose from_einops is a flat
\* list of axis names separated by single spaces, one per input dimension
\* (to_einops may group axes in parentheses).
C7_RoundTripFlatFrom ==
    ( /\ wrap_call.op = "forward"
      /\ FlatFromPattern
      /\ wrap.fn \in ShapePreserving ) => RoundTrip

\* A call with a grouped target layout, 'a b c' -> 'c (a b)', on a 2 x 3 x 2
\* input: fn saw the elements in another order and the call restored them.
C7_Witness ==
    /\ wrap_call.op = "forward" /\ wrap.fn = "identity"
    /\ wrap.to_einops = <<"c", " ", "(", "a", " ", "b", ")">>
    /\ wrap_call.x.shape = <<2, 3, 2>>
    /\ wrap_call.inner.shape = <<2, 6>>
    /\ wrap_call.inner.data # wrap_call.x.data
    /\ wrap_call.out.shape = <<2, 3, 2>>
    /\ wrap_call.out.data = wrap_call.x.data

---------------------------------------------------------------------------
(* Encoder_TRANSFORMERREEMB and Decoder_TRANSFORMERREEMB over a batch *)

\* The value of a batch key that has not been set.
Absent == <<>>

\* Swap the first two axes: mask.T, permute((1, 0, 2)), permute(1, 0, 2).
Transpose(m) == [t \in 1..Len(m[1]) |-> [b \in 1..Len(m) |-> m[b][t]]]

\* ~mask
Not(m) == [b \in DOMAIN m |-> [t \in DOMAIN m[b] |-> ~m[b][t]]]

\* nn.Linear with the layer's weights, on a feature vector.
Linear(layer, v) == << layer.bias + layer.weight * Sum(v) >>

\* XRef taking the first batch element's reference pose for every element.
XRefFirstElement(x) == [b \in DOMAIN x |-> x[1][1]]

\* x[:, 0, :], the pose of the first frame of every batch element.
XRef(x) == [b \in DOMAIN x |-> x[b][1]]

\* x - x_ref.repeat(1, x.size(1), 1)
XDelta(x) ==
    [b \in DOMAIN x |-> [t \in DOMAIN x[b] |-> [d \in DOMAIN x[b][t] |->
        x[b][t][d] - XRef(x)[b][d]]]]

\* EncoderWrites storing the delta over the raw pose as well.
EncoderWritesInPlace(bt, x_delta) == [bt EXCEPT !.x_delta = x_delta, !.x = x_delta]

\* batch['x_delta'] = x
EncoderWrites(bt, x_delta) == [bt EXCEPT !.x_delta = x_delta]

\* Encoder.forward(batch).  The transformer stack and the mu and sigma
\* layers are learned maps: their results are kept as shapes.
EncoderForward(self, bt) ==
    LET x       == bt.x
        mask    == bt.mask
        x_delta == XDelta(x)
        nframes == Len(x_delta[1])
        bs      == Len(x_delta)
    IN  [op |-> "encode", err |-> "none", pre |-> bt,
         batch |-> EncoderWrites(bt, x_delta),
         src_key_padding_mask |-> Not(mask),
         ret |-> [mu     |-> [shape |-> <<nframes, bs, self.audio_latent_dim>>],
                  logvar |-> [shape |-> <<nframes, bs, self.audio_latent_dim>>]]]

\* finallayer(seqTransDecoder(...)).reshape(nframes, bs, pos_dim): what the
\* learned stack produces is any tensor of that shape; the model takes the
\* tensor the network's weights (a seed) give, zero entries included.
FinalProjection(self, nframes, bs) ==
    [t \in 1..nframes |-> [b \in 1..bs |-> [d \in 1..self.pos_dim |->
        ((self.seed + 2 * t + 3 * b + d) % 4) - 1]]]

\* ZeroPadded indexing with ~mask where it should with ~mask.T.
ZeroPaddedUntransposed(output, mask) ==
    [t \in DOMAIN output |-> [b \in DOMAIN output[t] |->
        IF t \in DOMAIN mask /\ b \in DOMAIN mask[t] /\ Not(mask)[t][b]
        THEN [d \in DOMAIN output[t][b] |-> 0]
        ELSE output[t][b]]]

\* output[~mask.T] = 0 on the sequence-major output.
ZeroPadded(output, mask) ==
    [t \in DOMAIN output |-> [b \in DOMAIN output[t] |->
        IF Transpose(Not(mask))[t][b]
        THEN [d \in DOMAIN output[t][b] |-> 0]
        ELSE output[t][b]]]

\* KeyPaddingMask without the negation.
KeyPaddingMaskUnnegated(mask) == mask

\* tgt_key_padding_mask = ~mask
KeyPaddingMask(mask) == Not(mask)

\* DecoderWrites storing the fused latent back under 'z' as well.
DecoderWritesLatent(bt, output, z, y) == [bt EXCEPT !.output = output, !.z = z]

\* batch["output"] = output; z and y are the decoder's local tensors.
DecoderWrites(bt, output, z, y) == [bt EXCEPT !.output = output]

\* Decoder.forward(batch).
DecoderForward(self, bt) ==
    LET x       == bt.x
        mask    == bt.mask
        bs      == Len(mask)
        nframes == Len(mask[1])
        x_ref   == [b \in 1..bs |-> [t \in 1..nframes |->
                       Linear(self.firstposeEmbedding, XRef(x)[b])]]
        y       == [b \in 1..bs |-> [t \in 1..nframes |->
                       Linear(self.audioEmbedding, bt.y[b][t])]]
        z1      == Transpose(bt.z)
        z2      == [b \in 1..bs |-> [t \in 1..nframes |->
                       Linear(self.ztimelinear, x_ref[b][t] \o z1[b][t] \o y[b][t])]]
        z       == Transpose(z2)
        bias    == RPBForward(self.time_rel_pos_bias, nframes)
        heads   == self.time_rel_pos_bias.heads
        tgt_mask == [r \in 1..(bs * heads) |-> bias.out[((r - 1) % heads) + 1]]
        proj    == FinalProjection(self, nframes, bs)
        output  == Transpose(ZeroPadded(proj, mask))
    IN  IF bias.err # "none"
        THEN [op |-> "decode", err |-> bias.err, pre |-> bt, batch |-> bt]
        ELSE [op |-> "decode", err |-> "none", pre |-> bt,
              batch |-> DecoderWrites(bt, output, z, y),
              x_ref |-> XRef(x), memory |-> z,
              tgt_mask |-> tgt_mask,
              tgt_key_padding_mask |-> KeyPaddingMask(mask),
              proj |-> proj,
              ret |-> DecoderWrites(bt, output, z, y)]

\* Shapes of the batches with arbitrary masks, and the frame count of the
\* long batches, which reaches past the hard cutoff of the bias.
MaxBatch == 2

MaxFrames == 2

MaxPosDim == 2

LongFrames == 35

\* Pose tensors: all entries distinct, all equal, and one per frame.
Poses(bs, nframes, pos_dim) ==
    { [b \in 1..bs |-> [t \in 1..nframes |-> [d \in 1..pos_dim |-> 100 * b + 10 * t + d]]],
      [b \in 1..bs |-> [t \in 1..nframes |-> [d \in 1..pos_dim |-> 7]]],
      [b \in 1..bs |-> [t \in 1..nframes |-> [d \in 1..pos_dim |-> t]]] }

\* Masks of a long batch: the first L frames valid, only the first and the
\* last valid, and all but the first valid.
LongMasks(nframes) ==
    { << [t \in 1..nframes |-> t <= L] >> : L \in 0..nframes }
    \cup { << [t \in 1..nframes |-> t = 1 \/ t = nframes] >>,
           << [t \in 1..nframes |-> t > 1] >> }

Count(row) == Cardinality({ t \in DOMAIN row : row[t] })

\* The batch a loader hands over: x, y, mask, the latent z in [frames,
\* batch, channels] layout, lengths; x_delta and output not yet set.
Batch(x, mask) ==
    [x |-> x, mask |-> mask,
     y |-> [b \in DOMAIN mask |-> [t \in DOMAIN mask[b] |-> <<b + 2 * t>>]],
     z |-> [t \in DOMAIN mask[1] |-> [b \in DOMAIN mask |-> <<t - b>>]],
     lengths |-> [b \in DOMAIN mask |-> Count(mask[b])],
     x_delta |-> Absent, output |-> Absent]

\* The decoder's own defaults for num_buckets and max_distance.
DecoderDefaults == [num_buckets |-> 32, max_distance |-> 32, heads |-> 2]

Net(pos_dim, seed, c) ==
    [built |-> TRUE, pos_dim |-> pos_dim, audio_latent_dim |-> 256, seed |-> seed,
     firstposeEmbedding |-> [weight |-> 3, bias |-> 1],
     audioEmbedding     |-> [weight |-> 5, bias |-> -2],
     ztimelinear        |-> [weight |-> 7, bias |-> 4],
     time_rel_pos_bias  |-> RelativePositionBias(c,
         [b \in 0..(c.num_buckets - 1) |-> [h \in 1..c.heads |-> (b + 1) + 40 * (h - 1)]])]

\* Short batches of every shape, pose family and mask, for the networks
\* with the decoder's default bias parameters.
ShortRuns ==
    UNION { { [net |-> Net(pos_dim, seed, DecoderDefaults), batch |-> Batch(x, mask)] :
                x \in Poses(bs, nframes, pos_dim),
                mask \in [1..bs -> [1..nframes -> BOOLEAN]] } :
              bs \in 1..MaxBatch, nframes \in 1..MaxFrames,
              pos_dim \in 1..MaxPosDim, seed \in 0..1 }

\* One long sequence under each mask of LongMasks, for every bias
\* parameter set.
LongRuns ==
    { [net |-> Net(1, 0, c),
       batch |-> Batch(<< [t \in 1..LongFrames |-> <<t>>] >>, mask)] :
        c \in BiasConfigs, mask \in LongMasks(LongFrames) }

NoForward == [op |-> "none"]

Init ==
    /\ \E run \in ShortRuns \cup LongRuns : net = run.net /\ batch = run.batch
    /\ orig = [x |-> batch.x, y |-> batch.y, mask |-> batch.mask]
    /\ fwd = NoForward
    /\ rpb = Unbuilt /\ rpb_call = Unbuilt
    /\ attn = Unbuilt /\ attn_call = Unbuilt
    /\ wrap = Unbuilt /\ wrap_call = Unbuilt

\* Forward passes run one at a time on the same batch mapping, in any order.
Encode ==
    /\ fwd.op = "none"
    /\ fwd' = EncoderForward(net, batch)
    /\ batch' = fwd'.batch
    /\ UNCHANGED <<net, orig, biasVars, attnVars, wrapVars>>

Decode ==
    /\ fwd.op = "none"
    /\ fwd' = DecoderForward(net, batch)
    /\ batch' = fwd'.batch
    /\ UNCHANGED <<net, orig, biasVars, attnVars, wrapVars>>

Return ==
    /\ fwd.op # "none"
    /\ fwd' = NoForward
    /\ UNCHANGED <<net, batch, orig, biasVars, attnVars, wrapVars>>

Next == Encode \/ Decode \/ Return

Spec == Init /\ [][Next]_vars

---------------------------------------------------------------------------
(* Properties of the forward passes, checked under Spec. *)

BatchKeys == {"x", "y", "z", "mask", "lengths", "x_delta", "output"}

\* The pass wrote no key of the batch other than `key'.
WroteOnly(key) == \A k \in BatchKeys \ {key} : batch[k] = fwd.pre[k]

\* C1: the decoder's output has shape [B, F, pos_dim]; output[b, t, :] is
\* zero wherever mask[b, t] is false and is the final projection's value
\* (at [t, b] of the sequence-major tensor) wherever mask[b, t] is true.
C1_OutputZeroExactlyWherePadded ==
    fwd.op = "decode" =>
        /\ fwd.err = "none"
        /\ Len(batch.output) = Len(batch.mask)
        /\ \A b \in DOMAIN batch.mask :
               /\ Len(batch.output[b]) = Len(batch.mask[b])
               /\ \A t \in DOMAIN batch.mask[b] :
                      /\ Len(batch.output[b][t]) = net.pos_dim
                      /\ \A d \in 1..net.pos_dim :
                             batch.output[b][t][d] =
                                 IF batch.mask[b][t] THEN fwd.proj[t][b][d] ELSE 0

\* A decode of a 2 x 2 batch whose mask is not symmetric: [1, 2] is padded
\* and zeroed although the projection was nonzero there, [2, 1] is valid and
\* kept its nonzero value.
C1_Witness ==
    /\ fwd.op = "decode"
    /\ batch.mask = << <<TRUE, FALSE>>, <<TRUE, TRUE>> >>
    /\ \E d \in 1..net.pos_dim :
           /\ fwd.proj[2][1][d] # 0 /\ batch.output[1][2][d] = 0
           /\ fwd.proj[1][2][d] # 0 /\ batch.output[2][1][d] = fwd.proj[1][2][d]

\* C2: after Encoder.forward, x_delta[b, t, :] = x[b, t, :] - x[b, 0, :] for
\* every b and t, so x_delta[:, 0, :] is zero whatever the mask says.
C2_DeltaFromFirstFrame ==
    fwd.op = "encode" =>
        \A b \in DOMAIN orig.x : \A t \in DOMAIN orig.x[b] : \A d \in DOMAIN orig.x[b][t] :
            /\ batch.x_delta[b][t][d] = orig.x[b][t][d] - orig.x[b][1][d]
            /\ batch.x_delta[b][1][d] = 0

\* An encode of a batch of two elements with distinct poses whose frame 0
\* is masked invalid in the second: its delta is zero there and nonzero at
\* the next frame.
C2_Witness ==
    /\ fwd.op = "encode"
    /\ Len(batch.x) = 2 /\ Len(batch.x[1]) = 2
    /\ batch.x[2][1][1] # batch.x[1][1][1]
    /\ ~batch.mask[2][1]
    /\ batch.x_delta[2][1][1] = 0
    /\ batch.x_delta[2][2][1] # 0

\* C3: Decoder.forward returns the batch mapping it was given with the key
\* 'output' set; every other key maps to the value it had before the call.
C3_DecoderSetsOnlyOutput ==
    fwd.op = "decode" =>
        /\ fwd.err = "none"
        /\ fwd.ret = batch
        /\ batch.output # Absent
        /\ WroteOnly("output")

\* A decode of a batch that already carried the extra key x_delta.
C3_Witness ==
    /\ fwd.op = "decode"
    /\ fwd.pre.x_delta # Absent
    /\ batch.x_delta = fwd.pre.x_delta
    /\ batch.z = fwd.pre.z /\ fwd.memory # Transpose(Transpose(batch.z))
    /\ batch.output # Absent

\* C9: after any sequence of encoder and decoder passes on the same batch,
\* x, y and mask hold their original values; the encoder writes only
\* 'x_delta' and the decoder only 'output'; a decode reads the original
\* reference pose x[:, 0, :]; encoding again yields the same x_delta.
C9_InputsNeverOverwritten ==
    /\ (net.built /\ batch.x = orig.x /\ batch.y = orig.y /\ batch.mask = orig.mask)
    /\ fwd.op = "encode" =>
           /\ WroteOnly("x_delta")
           /\ fwd.pre.x_delta # Absent => batch.x_delta = fwd.pre.x_delta
    /\ fwd.op = "decode" =>
           /\ WroteOnly("output")
           /\ fwd.x_ref = [b \in DOMAIN orig.x |-> orig.x[b][1]]

\* A decode that ran after an encode: the batch carries the zero delta of
\* frame 0, and the decoder read the nonzero original pose of frame 0.
C9_Witness ==
    /\ fwd.op = "decode"
    /\ batch.x_delta # Absent
    /\ batch.x_delta[1][1][1] = 0
    /\ orig.x[1][1][1] # 0
    /\ fwd.x_ref[1] = orig.x[1][1]

\* An entry of the additive self-attention mask that the distance cutoff
\* did not push down by 1e8 (the learned biases are small).
NotHardMasked(v) == v > -(HardMaskValue \div 2)

\* C10: in the decoder's self-attention, for every batch element b and
\* every valid frame i, key position j = i is neither hard-masked by the
\* distance cutoff (in any head's row of the batch-repeated bias) nor
\* excluded as padding, so no valid query row is fully masked.
C10_ValidQueryAttendsItself ==
    fwd.op = "decode" =>
        /\ fwd.err = "none"
        /\ \A b \in DOMAIN batch.mask : \A i \in DOMAIN batch.mask[b] :
               batch.mask[b][i] =>
                   /\ ~fwd.tgt_key_padding_mask[b][i]
                   /\ \A h \in 1..net.time_rel_pos_bias.heads :
                          NotHardMasked(fwd.tgt_mask[(b - 1) * net.time_rel_pos_bias.heads + h][i][i])
                   /\ \E j \in DOMAIN batch.mask[b] :
                          /\ ~fwd.tgt_key_padding_mask[b][j]
                          /\ \A h \in 1..net.time_rel_pos_bias.heads :
                                 NotHardMasked(fwd.tgt_mask[(b - 1) * net.time_rel_pos_bias.heads + h][i][j])

\* A decode of 35 frames of which only the first and the last are valid:
\* for the first frame the only other valid key is hard-masked and the near
\* keys are padding, and key 1 is open.
C10_Witness ==
    /\ fwd.op = "decode"
    /\ Len(batch.mask[1]) = 35
    /\ batch.mask[1][1] /\ batch.mask[1][35] /\ ~batch.mask[1][2]
    /\ ~fwd.tgt_key_padding_mask[1][35]
    /\ ~NotHardMasked(fwd.tgt_mask[1][1][35])
    /\ fwd.tgt_key_padding_mask[1][2]
    /\ NotHardMasked(fwd.tgt_mask[1][1][1])
    /\ ~fwd.tgt_key_padding_mask[1][1]

===========================================================================
